---- MODULE Spec2Model ----
(***************************************************************************)
(* The Praziella canvas editor (CanvasEditor in components/CanvasEditor,   *)
(* driven by App): the raster surface, the undo/redo history, the stroke   *)
(* handlers, filters and image insertion, as a state machine.              *)
(*                                                                         *)
(* A pixel is an opaque RGB triple; the surface is a CanvasW x CanvasH     *)
(* grid of pixels.  Anti-aliasing is not modelled: a pixel is painted when *)
(* its centre lies inside the painted shape.                               *)
(***************************************************************************)
EXTENDS Integers, Sequences, FiniteSets, TLC

\* ------------------------------------------------------------------ bounds
\* canvas.offsetWidth / canvas.offsetHeight at mount (an input of the page)
CanvasW == 2
CanvasH == 2
\* number of user commands (clicks, mouse-downs) explored from the initial state
MaxOps == 3
\* number of pointer moves explored within one stroke
MaxPathLen == 1
\* number of scripted strokes a SpecHist session starts with
HistPrefix == 19
\* largest canvas and image side, in pixels, of a SpecGeom session
GeomDim == 3

\* --------------------------------------------------------------- constants
MAX_HISTORY == 20
DefaultBrushSize == 10

\* ------------------------------------------------------------------ colours
White == <<255, 255, 255>>
Black == <<0, 0, 0>>
Cyan  == <<6, 182, 212>>
Red   == <<239, 68, 68>>

\* the pixels of a canvas of the size <<width, height>>
PixelsOf(size) == (1..size[1]) \X (1..size[2])
Pixels == PixelsOf(<<CanvasW, CanvasH>>)

\* canvas.width and canvas.height of the surface s
Width(s)  == Cardinality({p[1] : p \in DOMAIN s})
Height(s) == Cardinality({p[2] : p \in DOMAIN s})

\* ctx.fillStyle = '#ffffff'; ctx.fillRect(0, 0, canvas.width, canvas.height)
WhiteOn(size) == [p \in PixelsOf(size) |-> White]
WhiteSurface == WhiteOn(<<CanvasW, CanvasH>>)

\* ------------------------------------------------------------- enumerations
IMAGE_TOOLS == {"SELECT", "BRUSH", "ERASER", "HAND", "AI_ADD", "SMART_EDIT"}
VIDEO_TOOLS == {"VIDEO_GEN", "VIDEO_TRIM", "VIDEO_TEXT", "VIDEO_AUDIO"}
ToolType    == IMAGE_TOOLS \cup VIDEO_TOOLS
EditorMode  == {"IMAGE", "VIDEO"}

\* the values of the FILTERS table
FILTERS == {"none", "grayscale(100%)", "sepia(100%)", "invert(100%)",
            "blur(5px)", "brightness(150%)", "contrast(200%)"}
\* a string that is no CSS filter: applyFilter takes any string
UnknownFilter == "posterize(3)"
\* the filter strings explored
FilterInputs == {"none", "grayscale(100%)", "invert(100%)", UnknownFilter}

\* pointer positions (offsetX, offsetY), in pixels
PointerInputs == {<<1, 1>>, <<CanvasW, CanvasH>>}
BrushSizeInputs == {1}
BrushColorInputs == {Black}
\* decoded images: width, height and (uniform, opaque) colour
ImageInputs == {[w |-> 1, h |-> 1, color |-> Red]}
\* what an Image is after its src failed to decode: width = height = 0
Undecodable == [w |-> 0, h |-> 0, color |-> Black]
\* the data handed to addImage and to the import: decodable or not
DataInputs == ImageInputs \cup {Undecodable}
\* what the user has typed into a prompt box
PromptInputs == {"", "a red kite"}
\* how checkApiKey settles: the key is selected, is not, or the host call rejects
KeyCheckOutcomes == {"yes", "no", "throw"}
\* how promptApiKeySelection settles
KeySelectOutcomes == {"ok", "throw"}
\* how generateImage settles: a data URL or null (it catches every error)
GenerateImageOutcomes == {"image", "null"}
\* how editImage settles: a data URL, null, or the rethrown error
EditImageOutcomes == {"image", "null", "throw"}
\* how generateVideo settles: a link, null, the rethrown error, or the rethrown
\* error "Requested entity was not found"
GenerateVideoOutcomes == {"uri", "null", "throw", "notFound"}
\* what generateContent gives chatWithAssistant: a text, no text, or an error
ChatReplies == {[kind |-> "text", text |-> "Layer warm and cool tones."],
                [kind |-> "text", text |-> ""],
                [kind |-> "error", text |-> ""]}
\* how getUserMedia settles
MediaOutcomes == {"granted", "denied"}
\* how the promise of ai.live.connect settles
ConnectOutcomes == {"resolved", "rejected"}
\* layout sizes a window resize gives the canvas
ResizeInputs == {<<CanvasW - 1, CanvasH>>}

\* ----------------------------------------------------------- pixel filters
Clamp(x) == IF x < 0 THEN 0 ELSE IF x > 255 THEN 255 ELSE x

\* a weighted sum of the channels, weights in 1/10000, rounded
Mix(c, wr, wg, wb) == Clamp((wr * c[1] + wg * c[2] + wb * c[3] + 5000) \div 10000)

RECURSIVE SumChannel(_, _, _)
SumChannel(s, k, ps) ==
    IF ps = {} THEN 0
    ELSE LET p == CHOOSE q \in ps : TRUE
         IN  s[p][k] + SumChannel(s, k, ps \ {p})

\* blur(5px) on a surface this small: every pixel takes the surface's mean
MeanColor(s) ==
    LET n == Cardinality(DOMAIN s)
    IN  << (2 * SumChannel(s, 1, DOMAIN s) + n) \div (2 * n),
           (2 * SumChannel(s, 2, DOMAIN s) + n) \div (2 * n),
           (2 * SumChannel(s, 3, DOMAIN s) + n) \div (2 * n) >>

\* context.filter = filter: the canvas keeps its current value ('none') when
\* the string does not parse as a filter list
ParseFilter(f) == IF f \in FILTERS THEN f ELSE "none"

\* the colour the filter f gives the pixel p of the source s
FilterPixel(f, s, p) ==
    LET c == s[p]
    IN  CASE f = "none" -> c
          [] f = "grayscale(100%)" ->
                LET l == Mix(c, 2126, 7152, 722) IN <<l, l, l>>
          [] f = "sepia(100%)" ->
                << Mix(c, 3930, 7690, 1890), Mix(c, 3490, 6860, 1680),
                   Mix(c, 2720, 5340, 1310) >>
          [] f = "invert(100%)" -> <<255 - c[1], 255 - c[2], 255 - c[3]>>
          [] f = "blur(5px)" -> MeanColor(s)
          [] f = "brightness(150%)" ->
                << Clamp((3 * c[1] + 1) \div 2), Clamp((3 * c[2] + 1) \div 2),
                   Clamp((3 * c[3] + 1) \div 2) >>
          [] f = "contrast(200%)" ->
                << Clamp((4 * c[1] - 255 + 1) \div 2), Clamp((4 * c[2] - 255 + 1) \div 2),
                   Clamp((4 * c[3] - 255 + 1) \div 2) >>

\* globalCompositeOperation 'source-over' with an opaque source pixel
SourceOver(src, dst) == src

\* tCtx.drawImage(canvas); context.filter = filter; context.drawImage(tempCanvas)
FilteredSurface(f, s) ==
    LET tempCanvas == s
        eff == ParseFilter(f)
    IN  [p \in DOMAIN s |-> SourceOver(FilterPixel(eff, tempCanvas, p), s[p])]

\* ------------------------------------------------------------------ strokes
\* whether the centre of pixel q is within w/2 of the segment a-b
\* (lineCap = lineJoin = 'round', lineWidth = w), in integers:
\* 4 * dist^2 <= w^2
Covered(q, a, b, w) ==
    LET dx == b[1] - a[1]
        dy == b[2] - a[2]
        vx == q[1] - a[1]
        vy == q[2] - a[2]
        L  == dx * dx + dy * dy
        t  == vx * dx + vy * dy
        cr == vx * dy - vy * dx
    IN  IF L = 0 \/ t <= 0 THEN 4 * (vx * vx + vy * vy) <= w * w
        ELSE IF t >= L
             THEN 4 * ((q[1] - b[1]) * (q[1] - b[1]) + (q[2] - b[2]) * (q[2] - b[2])) <= w * w
             ELSE 4 * cr * cr <= w * w * L

\* context.stroke(): every segment of the current path, in the current style
StrokePath(s, pts, w, color) ==
    [p \in DOMAIN s |->
        IF \E i \in 1..(Len(pts) - 1) : Covered(p, pts[i], pts[i + 1], w)
        THEN SourceOver(color, s[p])
        ELSE s[p]]

\* context.strokeStyle = activeTool === ERASER ? '#ffffff' : brushColor
StrokeStyle(tool, color) == IF tool = "ERASER" THEN White ELSE color

\* the early return of startDrawing and draw without SMART_EDIT
IsNonDrawingToolShort(tool) == tool \in {"SELECT", "HAND", "AI_ADD"}

\* the tools startDrawing and draw return early for
IsNonDrawingTool(tool) == tool \in {"SELECT", "HAND", "AI_ADD", "SMART_EDIT"}

\* ---------------------------------------------------------- image placement
\* rationals as <<numerator, denominator>>, denominator > 0
FMul(a, b) == <<a[1] * b[1], a[2] * b[2]>>
FSub(a, b) == <<a[1] * b[2] - b[1] * a[2], a[2] * b[2]>>
FAdd(a, b) == <<a[1] * b[2] + b[1] * a[2], a[2] * b[2]>>
FLe(a, b)  == a[1] * b[2] <= b[1] * a[2]
FLt(a, b)  == a[1] * b[2] < b[1] * a[2]
\* Math.max for Math.min
FMax(a, b) == IF FLe(a, b) THEN b ELSE a
FMin(a, b) == IF FLe(a, b) THEN a ELSE b
FHalf(a)   == <<a[1], 2 * a[2]>>
FInt(n)    == <<n, 1>>

\* addImage's onload on a W x H canvas: scale = min(W * 0.5 / iw, H * 0.5 / ih),
\* centred
CenteredScaledRect(W, H, img) ==
    LET scale == FMin(<<W, 2 * img.w>>, <<H, 2 * img.h>>)
        w == FMul(FInt(img.w), scale)
        h == FMul(FInt(img.h), scale)
    IN  [x |-> FHalf(FSub(FInt(W), w)), y |-> FHalf(FSub(FInt(H), h)),
         w |-> w, h |-> h]

\* handleImport's onload without the branch for an image that comes out too tall
FitCanvasRectWide(W, H, img) ==
    LET w == FInt(W)
        h == FMul(w, <<img.h, img.w>>)
    IN  [x |-> FHalf(FSub(FInt(W), w)), y |-> FHalf(FSub(FInt(H), h)),
         w |-> w, h |-> h]

\* handleImport's onload on a W x H canvas: full width, or full height when
\* that is too tall
FitCanvasRect(W, H, img) ==
    LET aspect == <<img.w, img.h>>
        w0 == FInt(W)
        h0 == FMul(w0, <<img.h, img.w>>)
        tall == FLt(FInt(H), h0)
        h == IF tall THEN FInt(H) ELSE h0
        w == IF tall THEN FMul(FInt(H), aspect) ELSE w0
    IN  [x |-> FHalf(FSub(FInt(W), w)), y |-> FHalf(FSub(FInt(H), h)),
         w |-> w, h |-> h]

\* whether the centre of pixel p (at p - 1/2 on each axis) lies in the rectangle
InRect(p, r) ==
    LET cx == <<2 * p[1] - 1, 2>>
        cy == <<2 * p[2] - 1, 2>>
    IN  /\ FLe(r.x, cx) /\ FLt(cx, FAdd(r.x, r.w))
        /\ FLe(r.y, cy) /\ FLt(cy, FAdd(r.y, r.h))

\* context.drawImage(img, x, y, w, h)
DrawImage(s, img, r) ==
    [p \in DOMAIN s |-> IF InRect(p, r) THEN SourceOver(img.color, s[p]) ELSE s[p]]

\* ------------------------------------------- variants with a seeded fault
\* (each stands in for the definition it is named after, to show that the
\* property it is paired with can tell the difference)

\* saveState without the shift() above MAX_HISTORY
SaveStateUncapped(ctx, s, hist, redo) ==
    IF ~ctx THEN [hist |-> hist, redo |-> redo]
    ELSE [hist |-> Append(hist, s), redo |-> <<>>]

\* saveState with pop() for shift(): the newest snapshot is dropped
SaveStateDropsNewest(ctx, s, hist, redo) ==
    IF ~ctx THEN [hist |-> hist, redo |-> redo]
    ELSE LET pushed == Append(hist, s)
         IN  [hist |-> IF Len(pushed) > MAX_HISTORY THEN SubSeq(pushed, 1, MAX_HISTORY) ELSE pushed,
              redo |-> <<>>]

\* saveState that forgets to clear the redo stack
SaveStateKeepsRedo(ctx, s, hist, redo) ==
    IF ~ctx THEN [hist |-> hist, redo |-> redo]
    ELSE LET pushed == Append(hist, s)
         IN  [hist |-> IF Len(pushed) > MAX_HISTORY THEN Tail(pushed) ELSE pushed,
              redo |-> redo]

\* undo with shift() for pop(): the oldest snapshot is restored
UndoCanvasOldest(s, hist, redo) ==
    [surface |-> IF hist = <<>> THEN s ELSE Head(hist),
     hist |-> IF hist = <<>> THEN <<>> ELSE Tail(hist),
     redo |-> Append(redo, s), restored |-> hist # <<>>]

\* undo that reads the top history entry without popping it
UndoCanvasKeepsEntry(s, hist, redo) ==
    [surface |-> IF hist = <<>> THEN s ELSE hist[Len(hist)], hist |-> hist,
     redo |-> Append(redo, s), restored |-> hist # <<>>]

\* redo that reads the top redo entry without popping it
RedoCanvasKeepsEntry(s, hist, redo) ==
    [surface |-> IF redo = <<>> THEN s ELSE redo[Len(redo)], hist |-> Append(hist, s),
     redo |-> redo, restored |-> redo # <<>>]

\* ------------------------------------------------------------------ history
\* saveState as called from a closure whose `context` is ctx: the snapshot is
\* pushed, the oldest entry shifted out above MAX_HISTORY, the redo stack
\* cleared; nothing happens when the closure's context is null
SaveState(ctx, s, hist, redo) ==
    IF ~ctx THEN [hist |-> hist, redo |-> redo]
    ELSE LET pushed == Append(hist, s)
         IN  [hist |-> IF Len(pushed) > MAX_HISTORY THEN Tail(pushed) ELSE pushed,
              redo |-> <<>>]

\* stack.pop(): the stack that is left (an empty stack stays empty)
Pop(stack) == IF stack = <<>> THEN <<>> ELSE SubSeq(stack, 1, Len(stack) - 1)
Top(stack) == stack[Len(stack)]

\* the guard of undo: neither an empty history nor a null context
CanUndo(hist, ctx) == ~(hist = <<>> \/ ~ctx)

\* the guard of redo, testing nothing but the context
CanRedoUnguarded(redo, ctx) == ctx

\* the guard of redo
CanRedo(redo, ctx) == ~(redo = <<>> \/ ~ctx)

\* undo, past its guard: the current pixels go onto the redo stack and the
\* popped snapshot is put on the canvas
\* (`restored`: pop() gave a snapshot, the branch that reports success)
UndoCanvas(s, hist, redo) ==
    [surface |-> IF hist = <<>> THEN s ELSE Top(hist), hist |-> Pop(hist),
     redo |-> Append(redo, s), restored |-> hist # <<>>]

\* redo, past its guard: the current pixels go onto the history stack (no
\* cap here) and the popped redo entry is put on the canvas
RedoCanvas(s, hist, redo) ==
    [surface |-> IF redo = <<>> THEN s ELSE Top(redo), hist |-> Append(hist, s),
     redo |-> Pop(redo), restored |-> redo # <<>>]

\* chatWithAssistant without the fallback for a reply that has no text
ChatWithAssistantNoFallback(reply) ==
    IF reply.kind = "error" THEN "Connection error. Please check your settings."
    ELSE reply.text

\* chatWithAssistant: response.text, or the fallback when that is empty or
\* missing; the catch turns an error into the second fallback
ChatWithAssistant(reply) ==
    IF reply.kind = "error" THEN "Connection error. Please check your settings."
    ELSE IF reply.text = "" THEN "I'm having trouble thinking right now."
    ELSE reply.text

\* `Switched to ${tool.toLowerCase().replace('_', ' ')} tool.`
ToolLabel(tool) ==
    CASE tool = "SELECT" -> "select"
      [] tool = "BRUSH" -> "brush"
      [] tool = "ERASER" -> "eraser"
      [] tool = "HAND" -> "hand"
      [] tool = "AI_ADD" -> "ai add"
      [] tool = "SMART_EDIT" -> "smart edit"
      [] tool = "VIDEO_GEN" -> "video gen"
      [] tool = "VIDEO_TRIM" -> "video trim"
      [] tool = "VIDEO_TEXT" -> "video text"
      [] tool = "VIDEO_AUDIO" -> "video audio"

\* ------------------------------------------------------------------- state
VARIABLES
    \* App
    mode,               \* state.mode
    activeTool,         \* state.activeTool
    brushSize,          \* state.brushSize
    brushColor,         \* state.brushColor
    assistantMessage,   \* assistantMessage
    \* CanvasEditor (one instance while mode = IMAGE)
    context,            \* whether the `context` state holds the 2d context
    isDrawing,          \* isDrawing
    surface,            \* the canvas pixels
    path,               \* the points of the context's current path
    historyStack,       \* historyStack.current
    redoStack,          \* redoStack.current
    pendingImages,      \* images of addImage whose onload has not run
    pendingImports,     \* imported files whose reader/image onload has not run
    \* the page
    offsetSize,         \* <<offsetWidth, offsetHeight>> the layout gives the canvas
    \* App, asynchronous requests
    generatingImage,    \* generatingImage
    aiJob,              \* the handleAiAdd / handleSmartEdit run that is suspended
                        \* at an await, and the await it is at
    chatPending,        \* askAssistant runs awaiting chatWithAssistant
    \* VideoEditor (one instance while mode = VIDEO)
    loading,            \* loading
    videoJob,           \* the await the mounted instance's handleGenerate is at
    staleJobs,          \* handleGenerate runs of instances that were unmounted
                        \* meanwhile: how many are at each await
    \* App, live voice
    isLive,             \* isLive
    liveStatus,         \* liveStatus
    sessions,           \* every LiveSession created so far, in order; the
                        \* last one is liveSessionRef.current
    liveRuns,           \* every run of toggleLive's connecting branch, in
                        \* order, with the start() call it makes
    \* bookkeeping of the run, read by the properties only
    nOps,               \* user commands run so far
    lastOp,             \* the handler that ran last
    lastArg,            \* the filter string, when it was applyFilter
    lastOk,             \* whether it got past its guards
    lastReturn,         \* the value it returned
    prev,               \* the canvas before the last handler (before the
                        \* stroke-start, during and right after a stroke)
    phase,              \* stroking: in a stroke only pointer events have touched;
                        \* acted: a stroke, filter or import has just completed;
                        \* undone: an undo has just acted; redone: and then a redo
    kind,               \* stroke | filter | import: the action just completed, or
                        \* just undone or redone right after it completed
    taken,              \* every snapshot this canvas took, in order
    pureCheckpoints,    \* no undo or redo has acted on this canvas
    strokeSaves,        \* checkpoints taken by pointer handlers since Idle
    lastChange          \* what wrote the pixels last: init | edit | history

appVars    == <<mode, activeTool, brushSize, brushColor, assistantMessage>>
canvasVars == <<context, isDrawing, surface, path, historyStack, redoStack,
                pendingImages, pendingImports>>
asyncVars  == <<generatingImage, aiJob, chatPending, loading, videoJob, staleJobs>>
liveVars   == <<isLive, liveStatus, sessions, liveRuns>>
logVars    == <<nOps, lastOp, lastArg, lastOk, lastReturn, prev, phase, kind,
                taken, pureCheckpoints, strokeSaves, lastChange>>
vars       == <<appVars, canvasVars, offsetSize, asyncVars, liveVars, logVars>>

Canvas == [surface |-> surface, hist |-> historyStack, redo |-> redoStack]

\* a canvas element before the mount effect has filled it: transparent black,
\* never read (every handler returns while `context` is null)
BlankSurface == [p \in Pixels |-> Black]

NoArg == "-"
\* the mark left in lastArg by a call that was handed undecodable data
BadData == "undecodable"
DataArg(img) == IF img = Undecodable THEN BadData ELSE NoArg

\* no handleAiAdd / handleSmartEdit run is suspended
NoJob == [kind |-> "none", at |-> "none"]

\* the awaits of VideoEditor.handleGenerate
VideoStages == {"checkApiKey", "promptApiKeySelection", "generateVideo", "reprompt"}
NoStaleJobs == [st \in VideoStages |-> 0]

\* the `context` of the first render, which the closures of the mount effect
\* (its saveState and its handleResize) keep: useState(null)
FirstRenderContext == FALSE

\* a canvas pixel after the canvas was cleared by setting its width: transparent
\* black (alpha is not modelled)
Cleared == Black

\* handleResize past its guard: getImageData, canvas.width/height = the new
\* layout size (which clears the canvas), putImageData at (0, 0)
ResizedSurface(s, size) ==
    [p \in PixelsOf(size) |-> IF p \in DOMAIN s THEN s[p] ELSE Cleared]

\* the bookkeeping of one handler run
Log(op, arg, ok, ph, kd, keep, saved, wrote, cost) ==
    /\ nOps + cost <= MaxOps
    /\ nOps' = nOps + cost
    /\ lastOp' = op
    /\ lastArg' = arg
    /\ lastOk' = ok
    /\ lastReturn' = "undefined"
    /\ prev' = IF keep THEN prev ELSE Canvas
    /\ phase' = ph
    /\ kind' = kd
    /\ taken' = IF saved THEN Append(taken, surface) ELSE taken
    /\ pureCheckpoints' = (pureCheckpoints /\ ~(ok /\ op \in {"undo", "redo"}))
    /\ lastChange' = IF wrote = "" THEN lastChange ELSE wrote

\* a handler that does not touch the canvas history
LogPlain(op, arg, ok, cost) == Log(op, arg, ok, "idle", "none", FALSE, FALSE, "", cost)

\* the state of a CanvasEditor that has rendered and not yet run its effects
FreshCanvas ==
    /\ context' = FALSE
    /\ isDrawing' = FALSE
    /\ surface' = BlankSurface
    /\ path' = <<>>
    /\ historyStack' = <<>>
    /\ redoStack' = <<>>
    /\ pendingImages' = {}
    /\ pendingImports' = {}

Init ==
    /\ mode = "IMAGE"
    /\ activeTool = "BRUSH"
    /\ brushSize = DefaultBrushSize
    /\ brushColor = Cyan
    /\ assistantMessage = "Welcome to Praziella! Select a tool to begin."
    /\ context = FALSE
    /\ isDrawing = FALSE
    /\ surface = BlankSurface
    /\ path = <<>>
    /\ historyStack = <<>>
    /\ redoStack = <<>>
    /\ pendingImages = {}
    /\ pendingImports = {}
    /\ offsetSize = <<CanvasW, CanvasH>>
    /\ generatingImage = FALSE
    /\ aiJob = NoJob
    /\ chatPending = 0
    /\ loading = FALSE
    /\ videoJob = "none"
    /\ staleJobs = NoStaleJobs
    /\ isLive = FALSE
    /\ liveStatus = "Ready"
    /\ sessions = <<>>
    /\ liveRuns = <<>>
    /\ nOps = 0
    /\ lastOp = "construct"
    /\ lastArg = NoArg
    /\ lastOk = TRUE
    /\ lastReturn = "undefined"
    /\ prev = [surface |-> BlankSurface, hist |-> <<>>, redo |-> <<>>]
    /\ phase = "idle"
    /\ kind = "none"
    /\ taken = <<>>
    /\ pureCheckpoints = TRUE
    /\ strokeSaves = 0
    /\ lastChange = "init"

\* ----------------------------------------------------------------- actions
\* The mount effect of CanvasEditor and the re-render setContext causes. Its
\* saveState() is the first render's, whose `context` is still null.
InitCanvas ==
    /\ mode = "IMAGE"
    /\ ~context
    /\ LET saved == SaveState(FirstRenderContext, WhiteOn(offsetSize),
                               historyStack, redoStack)
       IN  /\ surface' = WhiteOn(offsetSize)
           /\ historyStack' = saved.hist
           /\ redoStack' = saved.redo
    /\ context' = TRUE
    /\ UNCHANGED <<isDrawing, path, pendingImages, pendingImports>>
    /\ UNCHANGED appVars
    /\ lastOp' = "init"
    /\ lastArg' = NoArg
    /\ lastOk' = TRUE
    /\ prev' = Canvas
    /\ phase' = "idle"
    /\ kind' = "none"
    /\ taken' = <<>>
    /\ pureCheckpoints' = TRUE
    /\ strokeSaves' = 0
    /\ lastChange' = "init"
    /\ UNCHANGED <<nOps, lastReturn>>
    /\ UNCHANGED <<offsetSize, asyncVars>>
    /\ UNCHANGED liveVars

\* a sidebar that shows a button for every tool in either mode
ToolButtonsAll(m) == ToolType

\* the tools the sidebar shows a button for in mode m
ToolButtons(m) == IF m = "IMAGE" THEN IMAGE_TOOLS ELSE VIDEO_TOOLS

\* App.handleToolChange, from a button of the sidebar
HandleToolChange(tool) ==
    /\ tool \in ToolButtons(mode)
    /\ activeTool' = tool
    /\ assistantMessage' = "Switched to " \o ToolLabel(tool) \o " tool."
    /\ UNCHANGED <<mode, brushSize, brushColor>>
    /\ UNCHANGED canvasVars
    /\ LogPlain("toolChange", NoArg, TRUE, 1)
    /\ UNCHANGED strokeSaves
    /\ UNCHANGED <<offsetSize, asyncVars>>
    /\ UNCHANGED liveVars

\* App.handleModeChange; leaving IMAGE unmounts the CanvasEditor and entering
\* it mounts a new one
HandleModeChange(m) ==
    /\ mode' = m
    /\ activeTool' = IF m = "IMAGE" THEN "BRUSH" ELSE "VIDEO_GEN"
    /\ assistantMessage' = IF m = "VIDEO" THEN "Video Mode activated. Try Veo!"
                                           ELSE "Image Mode activated."
    /\ UNCHANGED <<brushSize, brushColor>>
    /\ IF m = mode THEN UNCHANGED canvasVars ELSE FreshCanvas
    /\ loading' = IF m = mode THEN loading ELSE FALSE
    /\ videoJob' = IF m = mode THEN videoJob ELSE "none"
    /\ staleJobs' = IF m = mode \/ videoJob = "none" THEN staleJobs
                    ELSE [staleJobs EXCEPT ![videoJob] = @ + 1]
    /\ UNCHANGED <<offsetSize, generatingImage, aiJob, chatPending>>
    /\ nOps < MaxOps
    /\ nOps' = nOps + 1
    /\ lastOp' = "modeChange"
    /\ lastArg' = NoArg
    /\ lastOk' = TRUE
    /\ lastReturn' = "undefined"
    /\ prev' = Canvas
    /\ phase' = "idle"
    /\ kind' = "none"
    /\ taken' = IF m = mode THEN taken ELSE <<>>
    /\ pureCheckpoints' = IF m = mode THEN pureCheckpoints ELSE TRUE
    /\ strokeSaves' = IF m = mode THEN strokeSaves ELSE 0
    /\ lastChange' = IF m = mode THEN lastChange ELSE "init"
    /\ UNCHANGED liveVars

\* the brush size slider of the image properties panel
SetBrushSize(n) ==
    /\ mode = "IMAGE"
    /\ brushSize' = n
    /\ UNCHANGED <<mode, activeTool, brushColor, assistantMessage>>
    /\ UNCHANGED canvasVars
    /\ LogPlain("brushSize", NoArg, TRUE, 1)
    /\ UNCHANGED strokeSaves
    /\ UNCHANGED <<offsetSize, asyncVars>>
    /\ UNCHANGED liveVars

\* the colour buttons of the image properties panel
SetBrushColor(c) ==
    /\ mode = "IMAGE"
    /\ brushColor' = c
    /\ UNCHANGED <<mode, activeTool, brushSize, assistantMessage>>
    /\ UNCHANGED canvasVars
    /\ LogPlain("brushColor", NoArg, TRUE, 1)
    /\ UNCHANGED strokeSaves
    /\ UNCHANGED <<offsetSize, asyncVars>>
    /\ UNCHANGED liveVars

\* onMouseDown
StartDrawing(pos) ==
    /\ mode = "IMAGE"
    /\ IF ~context \/ IsNonDrawingTool(activeTool)
       THEN /\ UNCHANGED canvasVars
            /\ LogPlain("startDrawing", NoArg, FALSE, 1)
            /\ UNCHANGED strokeSaves
       ELSE /\ LET saved == SaveState(context, surface, historyStack, redoStack)
               IN  /\ historyStack' = saved.hist
                   /\ redoStack' = saved.redo
            /\ path' = <<pos>>
            /\ isDrawing' = TRUE
            /\ UNCHANGED <<context, surface, pendingImages, pendingImports>>
            /\ Log("startDrawing", NoArg, TRUE, "stroking", "stroke", FALSE, TRUE, "", 1)
            /\ strokeSaves' = IF isDrawing THEN strokeSaves + 1 ELSE 1
    /\ UNCHANGED appVars
    /\ UNCHANGED <<offsetSize, asyncVars>>
    /\ UNCHANGED liveVars

\* onMouseMove
Draw(pos) ==
    /\ mode = "IMAGE"
    /\ IF ~isDrawing \/ ~context \/ IsNonDrawingTool(activeTool)
       THEN /\ UNCHANGED canvasVars
            /\ LogPlain("draw", NoArg, FALSE, 1)
       ELSE /\ Len(path) <= MaxPathLen
            /\ path' = Append(path, pos)
            /\ surface' = StrokePath(surface, path', brushSize,
                                     StrokeStyle(activeTool, brushColor))
            /\ UNCHANGED <<context, isDrawing, historyStack, redoStack,
                           pendingImages, pendingImports>>
            /\ IF phase = "stroking"
               THEN Log("draw", NoArg, TRUE, "stroking", kind, TRUE, FALSE, "edit", 0)
               ELSE Log("draw", NoArg, TRUE, "idle", "none", FALSE, FALSE, "edit", 0)
    /\ UNCHANGED appVars
    /\ UNCHANGED strokeSaves
    /\ UNCHANGED <<offsetSize, asyncVars>>
    /\ UNCHANGED liveVars

\* onMouseUp and onMouseLeave; closePath() paints nothing, and the next
\* stroke begins a new path
StopDrawing ==
    /\ mode = "IMAGE"
    /\ IF ~context \/ ~isDrawing
       THEN /\ UNCHANGED canvasVars
            /\ LogPlain("stopDrawing", NoArg, FALSE, 1)
       ELSE /\ isDrawing' = FALSE
            /\ UNCHANGED <<context, surface, path, historyStack, redoStack,
                           pendingImages, pendingImports>>
            /\ IF phase = "stroking"
               THEN Log("stopDrawing", NoArg, TRUE, "acted", kind, TRUE, FALSE, "", 0)
               ELSE Log("stopDrawing", NoArg, TRUE, "idle", "none", FALSE, FALSE, "", 0)
    /\ UNCHANGED appVars
    /\ UNCHANGED strokeSaves
    /\ UNCHANGED <<offsetSize, asyncVars>>
    /\ UNCHANGED liveVars

\* canvasRef.current?.undo(), from the top bar (shown in both modes)
Undo ==
    /\ IF ~CanUndo(historyStack, context)
       THEN /\ UNCHANGED canvasVars
            /\ UNCHANGED appVars
            /\ LogPlain("undo", NoArg, FALSE, 1)
       ELSE /\ LET c == UndoCanvas(surface, historyStack, redoStack)
               IN  /\ surface' = c.surface
                   /\ historyStack' = c.hist
                   /\ redoStack' = c.redo
                   /\ assistantMessage' = IF c.restored THEN "Undid last action."
                                                         ELSE assistantMessage
            /\ UNCHANGED <<mode, activeTool, brushSize, brushColor>>
            /\ UNCHANGED <<context, isDrawing, path, pendingImages, pendingImports>>
            /\ Log("undo", NoArg, TRUE, "undone", IF phase = "acted" THEN kind ELSE "none",
                   FALSE, FALSE, "history", 1)
    /\ UNCHANGED strokeSaves
    /\ UNCHANGED <<offsetSize, asyncVars>>
    /\ UNCHANGED liveVars

\* canvasRef.current?.redo()
Redo ==
    /\ IF ~CanRedo(redoStack, context)
       THEN /\ UNCHANGED canvasVars
            /\ UNCHANGED appVars
            /\ LogPlain("redo", NoArg, FALSE, 1)
       ELSE /\ LET c == RedoCanvas(surface, historyStack, redoStack)
               IN  /\ surface' = c.surface
                   /\ historyStack' = c.hist
                   /\ redoStack' = c.redo
                   /\ assistantMessage' = IF c.restored THEN "Redid action."
                                                         ELSE assistantMessage
            /\ UNCHANGED <<mode, activeTool, brushSize, brushColor>>
            /\ UNCHANGED <<context, isDrawing, path, pendingImages, pendingImports>>
            /\ IF phase = "undone"
               THEN Log("redo", NoArg, TRUE, "redone", kind, FALSE, FALSE, "history", 1)
               ELSE Log("redo", NoArg, TRUE, "idle", "none", FALSE, FALSE, "history", 1)
    /\ UNCHANGED strokeSaves
    /\ UNCHANGED <<offsetSize, asyncVars>>
    /\ UNCHANGED liveVars

\* canvasRef.current?.applyFilter(filter)
ApplyFilter(f) ==
    /\ mode = "IMAGE"
    /\ IF ~context
       THEN /\ UNCHANGED canvasVars
            /\ UNCHANGED appVars
            /\ LogPlain("applyFilter", f, FALSE, 1)
       ELSE /\ LET saved == SaveState(context, surface, historyStack, redoStack)
               IN  /\ historyStack' = saved.hist
                   /\ redoStack' = saved.redo
            /\ surface' = FilteredSurface(f, surface)
            /\ assistantMessage' = "Filter applied!"
            /\ UNCHANGED <<mode, activeTool, brushSize, brushColor>>
            /\ UNCHANGED <<context, isDrawing, path, pendingImages, pendingImports>>
            /\ Log("applyFilter", f, TRUE, "acted", "filter", FALSE, TRUE, "edit", 1)
    /\ UNCHANGED strokeSaves
    /\ UNCHANGED <<offsetSize, asyncVars>>
    /\ UNCHANGED liveVars

\* what canvasRef.current?.addImage(dataUrl) does to the canvas: nothing when
\* no CanvasEditor is mounted (canvasRef.current is null) or it has no context
CallAddImage(img) ==
    IF mode # "IMAGE" \/ ~context
    THEN UNCHANGED canvasVars
    ELSE /\ LET saved == SaveState(context, surface, historyStack, redoStack)
            IN  /\ historyStack' = saved.hist
                /\ redoStack' = saved.redo
         /\ pendingImages' = pendingImages \cup {img}
         /\ UNCHANGED <<context, isDrawing, surface, path, pendingImports>>

\* canvasRef.current?.addImage(dataUrl): the checkpoint is taken now, the
\* image is drawn when it has loaded
AddImage(img) ==
    /\ mode = "IMAGE"
    /\ CallAddImage(img)
    /\ IF ~context
       THEN LogPlain("addImage", DataArg(img), FALSE, 1)
       ELSE Log("addImage", DataArg(img), TRUE, "idle", "none", FALSE, TRUE, "", 1)
    /\ UNCHANGED appVars
    /\ UNCHANGED strokeSaves
    /\ UNCHANGED <<offsetSize, asyncVars>>
    /\ UNCHANGED liveVars

\* img.onload of addImage
ImageLoaded(img) ==
    /\ img \in pendingImages
    /\ img # Undecodable
    /\ pendingImages' = pendingImages \ {img}
    /\ surface' = DrawImage(surface, img,
                             CenteredScaledRect(Width(surface), Height(surface), img))
    /\ assistantMessage' = "Element added to canvas."
    /\ UNCHANGED <<mode, activeTool, brushSize, brushColor>>
    /\ UNCHANGED <<context, isDrawing, path, historyStack, redoStack, pendingImports>>
    /\ Log("imageLoaded", NoArg, TRUE, "idle", "none", FALSE, FALSE, "edit", 0)
    /\ UNCHANGED strokeSaves
    /\ UNCHANGED <<offsetSize, asyncVars>>
    /\ UNCHANGED liveVars

\* App.triggerFileUpload with a file chosen: the event reaches handleImport
\* when a CanvasEditor is mounted, which starts reading the file
TriggerImport(img) ==
    /\ assistantMessage' = "Importing image..."
    /\ pendingImports' = IF context THEN pendingImports \cup {img} ELSE pendingImports
    /\ UNCHANGED <<mode, activeTool, brushSize, brushColor>>
    /\ UNCHANGED <<context, isDrawing, surface, path, historyStack, redoStack,
                   pendingImages>>
    /\ LogPlain("triggerImport", DataArg(img), context, 1)
    /\ UNCHANGED strokeSaves
    /\ UNCHANGED <<offsetSize, asyncVars>>
    /\ UNCHANGED liveVars

\* img.onload of handleImport: checkpoint, white fill, the image fitted
ImportLoaded(img) ==
    /\ img \in pendingImports
    /\ img # Undecodable
    /\ pendingImports' = pendingImports \ {img}
    /\ LET saved == SaveState(context, surface, historyStack, redoStack)
       IN  /\ historyStack' = saved.hist
           /\ redoStack' = saved.redo
    /\ LET W == Width(surface)
           H == Height(surface)
       IN  surface' = DrawImage(WhiteOn(<<W, H>>), img, FitCanvasRect(W, H, img))
    /\ assistantMessage' = "Image loaded! Ready to edit."
    /\ UNCHANGED <<mode, activeTool, brushSize, brushColor>>
    /\ UNCHANGED <<context, isDrawing, path, pendingImages>>
    /\ Log("importLoaded", NoArg, TRUE, "acted", "import", FALSE, TRUE, "edit", 0)
    /\ UNCHANGED strokeSaves
    /\ UNCHANGED <<offsetSize, asyncVars>>
    /\ UNCHANGED liveVars

\* the error event of an image whose data does not decode: neither addImage
\* nor handleImport sets an onerror, so the image is just dropped
ImageFailed ==
    /\ Undecodable \in pendingImages
    /\ pendingImages' = pendingImages \ {Undecodable}
    /\ UNCHANGED <<context, isDrawing, surface, path, historyStack, redoStack,
                   pendingImports>>
    /\ UNCHANGED appVars
    /\ UNCHANGED <<offsetSize, asyncVars>>
    /\ LogPlain("imageFailed", BadData, FALSE, 0)
    /\ UNCHANGED strokeSaves
    /\ UNCHANGED liveVars

ImportFailed ==
    /\ Undecodable \in pendingImports
    /\ pendingImports' = pendingImports \ {Undecodable}
    /\ UNCHANGED <<context, isDrawing, surface, path, historyStack, redoStack,
                   pendingImages>>
    /\ UNCHANGED appVars
    /\ UNCHANGED <<offsetSize, asyncVars>>
    /\ LogPlain("importFailed", BadData, FALSE, 0)
    /\ UNCHANGED strokeSaves
    /\ UNCHANGED liveVars

\* a resize of the window. The listener is the mount effect's handleResize,
\* registered while a CanvasEditor is mounted, and its `context` is the first
\* render's.
HandleResize(size) ==
    /\ offsetSize' = size
    /\ IF mode = "IMAGE" /\ FirstRenderContext
       THEN surface' = ResizedSurface(surface, size)
       ELSE UNCHANGED surface
    /\ UNCHANGED <<context, isDrawing, path, historyStack, redoStack,
                   pendingImages, pendingImports>>
    /\ UNCHANGED appVars
    /\ UNCHANGED asyncVars
    /\ LogPlain("resize", NoArg, mode = "IMAGE" /\ FirstRenderContext, 1)
    /\ UNCHANGED strokeSaves
    /\ UNCHANGED liveVars

\* ------------------------------------------------- AI requests of App
\* handleAiAdd up to its first await; the button is in the AI add panel and
\* disabled while generatingImage
HandleAiAdd(prompt) ==
    /\ mode = "IMAGE"
    /\ activeTool = "AI_ADD"
    /\ ~generatingImage
    /\ IF prompt = ""
       THEN /\ UNCHANGED <<generatingImage, aiJob, assistantMessage>>
            /\ LogPlain("handleAiAdd", NoArg, FALSE, 1)
       ELSE /\ generatingImage' = TRUE
            /\ assistantMessage' = "Dreaming up your image with Imagen 4..."
            /\ aiJob' = [kind |-> "aiAdd", at |-> "checkApiKey"]
            /\ LogPlain("handleAiAdd", NoArg, TRUE, 1)
    /\ UNCHANGED <<mode, activeTool, brushSize, brushColor>>
    /\ UNCHANGED canvasVars
    /\ UNCHANGED <<offsetSize, chatPending, loading, videoJob, staleJobs>>
    /\ UNCHANGED strokeSaves
    /\ UNCHANGED liveVars

\* handleSmartEdit up to its first await; getCanvasData gives the picture of
\* the mounted canvas, so "Canvas is empty!" is not reached from the panel
HandleSmartEdit(prompt) ==
    /\ mode = "IMAGE"
    /\ activeTool = "SMART_EDIT"
    /\ ~generatingImage
    /\ IF prompt = ""
       THEN /\ UNCHANGED <<generatingImage, aiJob, assistantMessage>>
            /\ LogPlain("handleSmartEdit", NoArg, FALSE, 1)
       ELSE /\ generatingImage' = TRUE
            /\ assistantMessage' = "Applying magic edits with Gemini 2.5..."
            /\ aiJob' = [kind |-> "smartEdit", at |-> "checkApiKey"]
            /\ LogPlain("handleSmartEdit", NoArg, TRUE, 1)
    /\ UNCHANGED <<mode, activeTool, brushSize, brushColor>>
    /\ UNCHANGED canvasVars
    /\ UNCHANGED <<offsetSize, chatPending, loading, videoJob, staleJobs>>
    /\ UNCHANGED strokeSaves
    /\ UNCHANGED liveVars

\* `await checkApiKey()` of handleAiAdd / handleSmartEdit settles. Neither
\* handler catches a rejection here: the run ends and generatingImage stays.
AiKeyChecked(out) ==
    /\ aiJob.at = "checkApiKey"
    /\ aiJob' = CASE out = "yes" -> [aiJob EXCEPT !.at = "generate"]
                  [] out = "no" -> [aiJob EXCEPT !.at = "promptApiKeySelection"]
                  [] out = "throw" -> NoJob
    /\ UNCHANGED appVars
    /\ UNCHANGED canvasVars
    /\ UNCHANGED <<offsetSize, generatingImage, chatPending, loading, videoJob, staleJobs>>
    /\ LogPlain("aiKeyChecked", NoArg, out # "throw", 0)
    /\ UNCHANGED strokeSaves
    /\ UNCHANGED liveVars

\* `await promptApiKeySelection()` of handleAiAdd / handleSmartEdit settles
AiKeySelected(out) ==
    /\ aiJob.at = "promptApiKeySelection"
    /\ aiJob' = IF out = "ok" THEN [aiJob EXCEPT !.at = "generate"] ELSE NoJob
    /\ UNCHANGED appVars
    /\ UNCHANGED canvasVars
    /\ UNCHANGED <<offsetSize, generatingImage, chatPending, loading, videoJob, staleJobs>>
    /\ LogPlain("aiKeySelected", NoArg, out = "ok", 0)
    /\ UNCHANGED strokeSaves
    /\ UNCHANGED liveVars

\* `if (result)` that takes null for a result
HasImageAlways(out) == TRUE

\* `if (result)` on what generateImage / editImage resolved to
HasImage(out) == out = "image"

\* `await generateImage(aiPrompt)` settles and handleAiAdd runs to its end
AiAddGenerated(out, img) ==
    /\ aiJob = [kind |-> "aiAdd", at |-> "generate"]
    /\ IF out # "throw" /\ HasImage(out)
       THEN /\ CallAddImage(img)
            /\ assistantMessage' = "Added to canvas! You can now draw over it."
       ELSE /\ UNCHANGED canvasVars
            /\ assistantMessage' = "Sorry, I couldn't generate that image."
    /\ generatingImage' = FALSE
    /\ aiJob' = NoJob
    /\ UNCHANGED <<mode, activeTool, brushSize, brushColor>>
    /\ UNCHANGED <<offsetSize, chatPending, loading, videoJob, staleJobs>>
    /\ Log("aiAddGenerated", out, out = "image", "idle", "none", FALSE,
           out # "throw" /\ HasImage(out) /\ mode = "IMAGE" /\ context, "", 0)
    /\ UNCHANGED strokeSaves
    /\ UNCHANGED liveVars

\* `await editImage(canvasData, smartEditPrompt)` settles and handleSmartEdit
\* runs to its end
SmartEditReturned(out, img) ==
    /\ aiJob = [kind |-> "smartEdit", at |-> "generate"]
    /\ IF out # "throw" /\ HasImage(out)
       THEN /\ CallAddImage(img)
            /\ assistantMessage' = "Edit applied!"
       ELSE /\ UNCHANGED canvasVars
            /\ assistantMessage' = IF out = "null" THEN "Could not edit image."
                                                    ELSE "Smart edit failed."
    /\ generatingImage' = FALSE
    /\ aiJob' = NoJob
    /\ UNCHANGED <<mode, activeTool, brushSize, brushColor>>
    /\ UNCHANGED <<offsetSize, chatPending, loading, videoJob, staleJobs>>
    /\ Log("smartEditReturned", out, out = "image", "idle", "none", FALSE,
           out # "throw" /\ HasImage(out) /\ mode = "IMAGE" /\ context, "", 0)
    /\ UNCHANGED strokeSaves
    /\ UNCHANGED liveVars

\* --------------------------------------------------- VideoEditor requests
\* whether a handleGenerate run is at the await st: the mounted instance's
\* run, or (stale) one of an instance unmounted since
HasVideoJob(stale, st) == IF stale THEN staleJobs[st] > 0 ELSE videoJob = st

\* the run goes on to the await nxt, or ends (nxt = "none") through
\* `finally { setLoading(false) }`, which is lost on an unmounted instance
MoveVideoJob(stale, st, nxt) ==
    IF stale
    THEN /\ staleJobs' = [x \in VideoStages |->
                            staleJobs[x] - (IF x = st THEN 1 ELSE 0)
                                         + (IF x = nxt THEN 1 ELSE 0)]
         /\ UNCHANGED <<loading, videoJob>>
    ELSE /\ videoJob' = nxt
         /\ loading' = IF nxt = "none" THEN FALSE ELSE loading
         /\ UNCHANGED staleJobs

\* handleGenerate up to its first await; the GO button is disabled while
\* loading and absent under the trim tool
HandleGenerate ==
    /\ mode = "VIDEO"
    /\ activeTool # "VIDEO_TRIM"
    /\ ~loading
    /\ loading' = TRUE
    /\ videoJob' = "checkApiKey"
    /\ UNCHANGED appVars
    /\ UNCHANGED canvasVars
    /\ UNCHANGED <<offsetSize, generatingImage, aiJob, chatPending, staleJobs>>
    /\ LogPlain("handleGenerate", NoArg, TRUE, 1)
    /\ UNCHANGED strokeSaves
    /\ UNCHANGED liveVars

\* `await checkApiKey()` of handleGenerate settles
VideoKeyChecked(stale, out) ==
    /\ HasVideoJob(stale, "checkApiKey")
    /\ MoveVideoJob(stale, "checkApiKey",
                    CASE out = "yes" -> "generateVideo"
                      [] out = "no" -> "promptApiKeySelection"
                      [] out = "throw" -> "none")
    /\ assistantMessage' =
            CASE out = "yes" -> "Sending your idea to the Veo model..."
              [] out = "no" -> "I need you to select an API Key for Veo."
              [] out = "throw" -> "Generation failed."
    /\ UNCHANGED <<mode, activeTool, brushSize, brushColor>>
    /\ UNCHANGED canvasVars
    /\ UNCHANGED <<offsetSize, generatingImage, aiJob, chatPending>>
    /\ LogPlain("videoKeyChecked", NoArg, out # "throw", 0)
    /\ UNCHANGED strokeSaves
    /\ UNCHANGED liveVars

\* `await promptApiKeySelection()` in the try block settles
VideoKeySelected(stale, out) ==
    /\ HasVideoJob(stale, "promptApiKeySelection")
    /\ MoveVideoJob(stale, "promptApiKeySelection",
                    IF out = "ok" THEN "generateVideo" ELSE "none")
    /\ assistantMessage' = IF out = "ok" THEN "Sending your idea to the Veo model..."
                                          ELSE "Generation failed."
    /\ UNCHANGED <<mode, activeTool, brushSize, brushColor>>
    /\ UNCHANGED canvasVars
    /\ UNCHANGED <<offsetSize, generatingImage, aiJob, chatPending>>
    /\ LogPlain("videoKeySelected", NoArg, out = "ok", 0)
    /\ UNCHANGED strokeSaves
    /\ UNCHANGED liveVars

\* `await generateVideo(options)` settles
VideoGenerated(stale, out) ==
    /\ HasVideoJob(stale, "generateVideo")
    /\ MoveVideoJob(stale, "generateVideo",
                    IF out = "notFound" THEN "reprompt" ELSE "none")
    /\ assistantMessage' =
            CASE out = "uri" -> "Video generated! Check it out."
              [] out = "null" -> "Something went wrong generating the video."
              [] out = "throw" -> "Generation failed."
              [] out = "notFound" -> assistantMessage
    /\ UNCHANGED <<mode, activeTool, brushSize, brushColor>>
    /\ UNCHANGED canvasVars
    /\ UNCHANGED <<offsetSize, generatingImage, aiJob, chatPending>>
    /\ LogPlain("videoGenerated", out, out = "uri", 0)
    /\ UNCHANGED strokeSaves
    /\ UNCHANGED liveVars

\* `await promptApiKeySelection()` in the catch block settles
VideoReprompted(stale, out) ==
    /\ HasVideoJob(stale, "reprompt")
    /\ MoveVideoJob(stale, "reprompt", "none")
    /\ assistantMessage' = IF out = "ok"
                            THEN "API Key invalid or not found. Please try again."
                            ELSE assistantMessage
    /\ UNCHANGED <<mode, activeTool, brushSize, brushColor>>
    /\ UNCHANGED canvasVars
    /\ UNCHANGED <<offsetSize, generatingImage, aiJob, chatPending>>
    /\ LogPlain("videoReprompted", NoArg, out = "ok", 0)
    /\ UNCHANGED strokeSaves
    /\ UNCHANGED liveVars

\* ------------------------------------------------------------ the assistant
\* askAssistant up to its await (the button is never disabled)
AskAssistant ==
    /\ assistantMessage' = "How can I help you with your creation today?"
    /\ chatPending' = chatPending + 1
    /\ UNCHANGED <<mode, activeTool, brushSize, brushColor>>
    /\ UNCHANGED canvasVars
    /\ UNCHANGED <<offsetSize, generatingImage, aiJob, loading, videoJob, staleJobs>>
    /\ LogPlain("askAssistant", NoArg, TRUE, 1)
    /\ UNCHANGED strokeSaves
    /\ UNCHANGED liveVars

\* `await chatWithAssistant(...)` settles: setAssistantMessage(tip)
ChatReturned(reply) ==
    /\ chatPending > 0
    /\ chatPending' = chatPending - 1
    /\ assistantMessage' = ChatWithAssistant(reply)
    /\ UNCHANGED <<mode, activeTool, brushSize, brushColor>>
    /\ UNCHANGED canvasVars
    /\ UNCHANGED <<offsetSize, generatingImage, aiJob, loading, videoJob, staleJobs>>
    /\ LogPlain("chatReturned",
                IF reply.kind = "error" THEN "error"
                ELSE IF reply.text = "" THEN "empty" ELSE "text", TRUE, 0)
    /\ UNCHANGED strokeSaves
    /\ UNCHANGED liveVars

\* -------------------------------------------------------------- live voice
\* a LiveSession as its constructor leaves it
\*   audioContext: 0 for null, else the run whose start() created the context
\*   nodes:        0 while inputSource and processor are null, else the run
\*                 whose onopen built them
\*   active:       this.active
\*   stopped, reported, sent: bookkeeping (stop() was called; the statuses
\*                 passed to onStatusChange; microphone audio forwarded:
\*                 none, live, afterStop)
NewSession ==
    [audioContext |-> 0, nodes |-> 0, active |-> FALSE,
     stopped |-> FALSE, reported |-> <<>>, sent |-> "none"]

\* a run of toggleLive's connecting branch at its first await
\*   at:       the await the run is at (checkApiKey, promptApiKeySelection,
\*             getUserMedia inside start(), connect: `await sessionPromise`),
\*             or done / failed
\*   session:  the LiveSession its start() call was made on (0 before)
\*   conn:     its connection: none, connecting, open, errored, closed, failed
\*   ctx:      the AudioContext its start() created: none, running, closed
\*   nodes:    the source and processor its onopen built are connected
\*   nodesCtx: the run whose context those nodes were built on
NewRun ==
    [at |-> "checkApiKey", session |-> 0, conn |-> "none", ctx |-> "none",
     nodes |-> FALSE, nodesCtx |-> 0]

\* this.onStatusChange(status)
Report(sess, status) == [sess EXCEPT !.reported = Append(@, status)]

\* the session after start() up to `await getUserMedia`, without its
\* onStatusChange("Connecting...")
StartSilently(sess, j) == [sess EXCEPT !.audioContext = j]

\* the session after start() up to `await getUserMedia`, called by run j:
\* the audio context is created and "Connecting..." reported
Start(sess, j) == Report([sess EXCEPT !.audioContext = j], "Connecting...")

\* stop(), on the session: active = false
Stop(sess) == [sess EXCEPT !.active = FALSE, !.stopped = TRUE]

\* stop(), on what the session refers to: inputSource and processor are
\* disconnected and audioContext closed, when set
Stopped(runs, sess) ==
    [j \in DOMAIN runs |->
        [runs[j] EXCEPT !.nodes = IF sess.nodes = j THEN FALSE ELSE @,
                        !.ctx = IF sess.audioContext = j THEN "closed" ELSE @]]

\* the catch of toggleLive
LiveFailed ==
    /\ isLive' = FALSE
    /\ assistantMessage' = "Failed to connect to Live API."
    /\ UNCHANGED <<liveStatus, sessions>>

\* `await liveSessionRef.current.start()` of run j: start() is called on the
\* session the ref holds by now, the last one created
LiveStart(j) ==
    LET s == Len(sessions)
    IN  /\ sessions' = [sessions EXCEPT ![s] = Start(@, j)]
        /\ liveRuns' = [liveRuns EXCEPT ![j] = [@ EXCEPT !.at = "getUserMedia",
                                                         !.session = s,
                                                         !.ctx = "running"]]
        /\ liveStatus' = "Connecting..."
        /\ UNCHANGED <<isLive, assistantMessage>>

\* what the live actions leave alone
LiveFrame ==
    /\ UNCHANGED <<mode, activeTool, brushSize, brushColor>>
    /\ UNCHANGED canvasVars
    /\ UNCHANGED <<offsetSize, asyncVars>>
    /\ UNCHANGED strokeSaves

\* toggleLive up to its first await
ToggleLive ==
    /\ IF isLive
       THEN /\ sessions' = [sessions EXCEPT ![Len(sessions)] = Stop(@)]
            /\ liveRuns' = Stopped(liveRuns, sessions[Len(sessions)])
            /\ isLive' = FALSE
            /\ liveStatus' = "Ready"
            /\ assistantMessage' = "Live voice session ended."
       ELSE /\ assistantMessage' = "Connecting to Gemini Live..."
            /\ isLive' = TRUE
            /\ sessions' = Append(sessions, NewSession)
            /\ liveRuns' = Append(liveRuns, NewRun)
            /\ UNCHANGED liveStatus
    /\ LiveFrame
    /\ LogPlain("toggleLive", NoArg, TRUE, 1)

\* `await checkApiKey()` of toggleLive settles
LiveKeyChecked(j, out) ==
    /\ liveRuns[j].at = "checkApiKey"
    /\ CASE out = "yes" -> LiveStart(j)
         [] out = "no" ->
                /\ liveRuns' = [liveRuns EXCEPT ![j].at = "promptApiKeySelection"]
                /\ UNCHANGED <<isLive, liveStatus, sessions, assistantMessage>>
         [] out = "throw" ->
                /\ liveRuns' = [liveRuns EXCEPT ![j].at = "failed"]
                /\ LiveFailed
    /\ LiveFrame
    /\ LogPlain("liveKeyChecked", NoArg, out # "throw", 0)

\* `await promptApiKeySelection()` of toggleLive settles
LiveKeySelected(j, out) ==
    /\ liveRuns[j].at = "promptApiKeySelection"
    /\ IF out = "ok"
       THEN LiveStart(j)
       ELSE /\ liveRuns' = [liveRuns EXCEPT ![j].at = "failed"]
            /\ LiveFailed
    /\ LiveFrame
    /\ LogPlain("liveKeySelected", NoArg, out = "ok", 0)

\* `await getUserMedia` settles; with a stream, ai.live.connect is called and
\* start() awaits its promise
MediaSettled(j, out) ==
    /\ liveRuns[j].at = "getUserMedia"
    /\ IF out = "granted"
       THEN /\ liveRuns' = [liveRuns EXCEPT ![j].at = "connect",
                                             ![j].conn = "connecting"]
            /\ UNCHANGED <<isLive, liveStatus, sessions, assistantMessage>>
       ELSE /\ liveRuns' = [liveRuns EXCEPT ![j].at = "failed"]
            /\ LiveFailed
    /\ LiveFrame
    /\ LogPlain("mediaSettled", NoArg, out = "granted", 0)

\* the onopen callback of run j's connection. The nodes are built on the
\* session's current audio context; on one that stop() has closed,
\* createMediaStreamSource may throw or build them (built).
OnOpen(j, built) ==
    LET s  == liveRuns[j].session
        c  == sessions[s].audioContext
        ok == c # 0 /\ (liveRuns[c].ctx = "running" \/ built)
    IN  /\ liveRuns[j].conn = "connecting"
        /\ sessions' = [sessions EXCEPT
                            ![s] = [Report(@, "Live") EXCEPT
                                        !.active = TRUE,
                                        !.nodes = IF ok THEN j ELSE @]]
        /\ liveRuns' = [liveRuns EXCEPT
                            ![j] = [@ EXCEPT !.conn = "open",
                                             !.nodes = ok,
                                             !.nodesCtx = IF ok THEN c ELSE 0]]
        /\ liveStatus' = "Live"
        /\ UNCHANGED <<isLive, assistantMessage>>
        /\ LiveFrame
        /\ LogPlain("onopen", NoArg, TRUE, 0)

\* `await sessionPromise` settles: resolved once the connection has opened,
\* rejected when it could not be made
SessionSettled(j, out) ==
    /\ liveRuns[j].at = "connect"
    /\ IF out = "resolved"
       THEN /\ liveRuns[j].conn \in {"open", "errored", "closed"}
            /\ liveRuns' = [liveRuns EXCEPT ![j].at = "done"]
            /\ UNCHANGED <<isLive, liveStatus, sessions, assistantMessage>>
       ELSE /\ liveRuns[j].conn = "connecting"
            /\ liveRuns' = [liveRuns EXCEPT ![j].at = "failed", ![j].conn = "failed"]
            /\ LiveFailed
    /\ LiveFrame
    /\ LogPlain("sessionSettled", NoArg, out = "resolved", 0)

\* the onerror callback of run j's connection
OnError(j) ==
    LET s == liveRuns[j].session
    IN  /\ liveRuns[j].conn \in {"connecting", "open"}
        /\ sessions' = [sessions EXCEPT ![s] = Stop(Report(@, "Error"))]
        /\ liveRuns' = [Stopped(liveRuns, sessions[s]) EXCEPT ![j].conn = "errored"]
        /\ liveStatus' = "Error"
        /\ UNCHANGED <<isLive, assistantMessage>>
        /\ LiveFrame
        /\ LogPlain("onerror", NoArg, TRUE, 0)

\* the onclose callback of run j's connection
OnClose(j) ==
    LET s == liveRuns[j].session
    IN  /\ liveRuns[j].conn \in {"open", "errored"}
        /\ sessions' = [sessions EXCEPT ![s] = Stop(Report(@, "Disconnected"))]
        /\ liveRuns' = [Stopped(liveRuns, sessions[s]) EXCEPT ![j].conn = "closed"]
        /\ liveStatus' = "Disconnected"
        /\ UNCHANGED <<isLive, assistantMessage>>
        /\ LiveFrame
        /\ LogPlain("onclose", NoArg, TRUE, 0)

\* processor.onaudioprocess of the nodes run j's onopen built, which their
\* context calls while it runs: a chunk is sent when the session is active
OnAudioProcess(j) ==
    LET s == liveRuns[j].session
    IN  /\ liveRuns[j].nodes
        /\ liveRuns[liveRuns[j].nodesCtx].ctx = "running"
        /\ sessions' = IF ~sessions[s].active THEN sessions
                        ELSE [sessions EXCEPT ![s].sent =
                                IF sessions[s].stopped THEN "afterStop"
                                ELSE IF @ = "afterStop" THEN @ ELSE "live"]
        /\ UNCHANGED <<isLive, liveStatus, liveRuns, assistantMessage>>
        /\ LiveFrame
        /\ LogPlain("onaudioprocess", NoArg, sessions[s].active, 0)

Next ==
    \/ InitCanvas
    \/ \E tool \in ToolType : HandleToolChange(tool)
    \/ \E m \in EditorMode : HandleModeChange(m)
    \/ \E n \in BrushSizeInputs : SetBrushSize(n)
    \/ \E c \in BrushColorInputs : SetBrushColor(c)
    \/ \E pos \in PointerInputs : StartDrawing(pos)
    \/ \E pos \in PointerInputs : Draw(pos)
    \/ StopDrawing
    \/ Undo
    \/ Redo
    \/ \E f \in FilterInputs : ApplyFilter(f)
    \/ \E img \in DataInputs : AddImage(img)
    \/ \E img \in ImageInputs : ImageLoaded(img)
    \/ ImageFailed
    \/ \E img \in DataInputs : TriggerImport(img)
    \/ \E img \in ImageInputs : ImportLoaded(img)
    \/ ImportFailed
    \/ \E size \in ResizeInputs : HandleResize(size)

Spec == Init /\ [][Next]_vars

\* ------------------------------------------------- a session with history
\* The state a session is in after HistPrefix strokes across the canvas, the
\* user switching between brush and eraser from one stroke to the next: the
\* history is then close to MAX_HISTORY, and SpecHist explores from there.
ScriptTool(i) == IF i % 2 = 1 THEN "BRUSH" ELSE "ERASER"
ScriptPath == << <<1, 1>>, <<CanvasW, CanvasH>> >>

RECURSIVE Replay(_)
Replay(n) ==
    IF n = 0
    THEN [surface |-> WhiteSurface, hist |-> <<>>, redo |-> <<>>, taken |-> <<>>]
    ELSE LET c == Replay(n - 1)
             saved == SaveState(TRUE, c.surface, c.hist, c.redo)
         IN  [surface |-> StrokePath(c.surface, ScriptPath, DefaultBrushSize,
                                     StrokeStyle(ScriptTool(n), Cyan)),
              hist |-> saved.hist, redo |-> saved.redo,
              taken |-> Append(c.taken, c.surface)]

InitHist ==
    LET c == Replay(HistPrefix)
        b == Replay(HistPrefix - 1)
    IN  /\ mode = "IMAGE"
        /\ activeTool = ScriptTool(HistPrefix)
        /\ brushSize = DefaultBrushSize
        /\ brushColor = Cyan
        /\ assistantMessage = "Switched to " \o ToolLabel(ScriptTool(HistPrefix)) \o " tool."
        /\ context = TRUE
        /\ isDrawing = FALSE
        /\ surface = c.surface
        /\ path = ScriptPath
        /\ historyStack = c.hist
        /\ redoStack = c.redo
        /\ pendingImages = {}
        /\ pendingImports = {}
        /\ offsetSize = <<CanvasW, CanvasH>>
        /\ generatingImage = FALSE
        /\ aiJob = NoJob
        /\ chatPending = 0
        /\ loading = FALSE
        /\ videoJob = "none"
        /\ staleJobs = NoStaleJobs
        /\ isLive = FALSE
        /\ liveStatus = "Ready"
        /\ sessions = <<>>
        /\ liveRuns = <<>>
        /\ nOps = 0
        /\ lastOp = "stopDrawing"
        /\ lastArg = NoArg
        /\ lastOk = TRUE
        /\ lastReturn = "undefined"
        /\ prev = [surface |-> b.surface, hist |-> b.hist, redo |-> b.redo]
        /\ phase = "acted"
        /\ kind = "stroke"
        /\ taken = c.taken
        /\ pureCheckpoints = TRUE
        /\ strokeSaves = 1
        /\ lastChange = "edit"

SpecHist == InitHist /\ [][Next]_vars

\* ------------------------------------------------ a session with requests
\* The state of a session whose canvas is initialised and where the user has
\* picked the AI add tool; NextAi adds the requests App, VideoEditor and the
\* assistant make to the handlers of the canvas (addImage is then called by
\* the requests only).
InitAi ==
    /\ mode = "IMAGE"
    /\ activeTool = "AI_ADD"
    /\ brushSize = DefaultBrushSize
    /\ brushColor = Cyan
    /\ assistantMessage = "Switched to " \o ToolLabel("AI_ADD") \o " tool."
    /\ context = TRUE
    /\ isDrawing = FALSE
    /\ surface = WhiteSurface
    /\ path = <<>>
    /\ historyStack = <<>>
    /\ redoStack = <<>>
    /\ pendingImages = {}
    /\ pendingImports = {}
    /\ offsetSize = <<CanvasW, CanvasH>>
    /\ generatingImage = FALSE
    /\ aiJob = NoJob
    /\ chatPending = 0
    /\ loading = FALSE
    /\ videoJob = "none"
    /\ staleJobs = NoStaleJobs
    /\ isLive = FALSE
    /\ liveStatus = "Ready"
    /\ sessions = <<>>
    /\ liveRuns = <<>>
    /\ nOps = 0
    /\ lastOp = "toolChange"
    /\ lastArg = NoArg
    /\ lastOk = TRUE
    /\ lastReturn = "undefined"
    /\ prev = [surface |-> WhiteSurface, hist |-> <<>>, redo |-> <<>>]
    /\ phase = "idle"
    /\ kind = "none"
    /\ taken = <<>>
    /\ pureCheckpoints = TRUE
    /\ strokeSaves = 0
    /\ lastChange = "init"

NextAi ==
    \/ InitCanvas
    \/ \E tool \in ToolType : HandleToolChange(tool)
    \/ \E m \in EditorMode : HandleModeChange(m)
    \/ \E pos \in PointerInputs : StartDrawing(pos)
    \/ \E pos \in PointerInputs : Draw(pos)
    \/ StopDrawing
    \/ Undo
    \/ Redo
    \/ \E f \in FilterInputs : ApplyFilter(f)
    \/ \E img \in ImageInputs : ImageLoaded(img)
    \/ \E prompt \in PromptInputs : HandleAiAdd(prompt)
    \/ \E prompt \in PromptInputs : HandleSmartEdit(prompt)
    \/ \E out \in KeyCheckOutcomes : AiKeyChecked(out)
    \/ \E out \in KeySelectOutcomes : AiKeySelected(out)
    \/ \E out \in GenerateImageOutcomes, img \in ImageInputs : AiAddGenerated(out, img)
    \/ \E out \in EditImageOutcomes, img \in ImageInputs : SmartEditReturned(out, img)
    \/ HandleGenerate
    \/ \E stale \in BOOLEAN, out \in KeyCheckOutcomes : VideoKeyChecked(stale, out)
    \/ \E stale \in BOOLEAN, out \in KeySelectOutcomes : VideoKeySelected(stale, out)
    \/ \E stale \in BOOLEAN, out \in GenerateVideoOutcomes : VideoGenerated(stale, out)
    \/ \E stale \in BOOLEAN, out \in KeySelectOutcomes : VideoReprompted(stale, out)
    \/ AskAssistant
    \/ \E reply \in ChatReplies : ChatReturned(reply)

SpecAi == InitAi /\ [][NextAi]_vars

\* ------------------------------------------------- the live voice sessions
\* toggleLive and the LiveSession objects it creates, with the callbacks of
\* their connections in every order
NextLive ==
    \/ ToggleLive
    \/ \E j \in DOMAIN liveRuns, out \in KeyCheckOutcomes : LiveKeyChecked(j, out)
    \/ \E j \in DOMAIN liveRuns, out \in KeySelectOutcomes : LiveKeySelected(j, out)
    \/ \E j \in DOMAIN liveRuns, out \in MediaOutcomes : MediaSettled(j, out)
    \/ \E j \in DOMAIN liveRuns, built \in BOOLEAN : OnOpen(j, built)
    \/ \E j \in DOMAIN liveRuns, out \in ConnectOutcomes : SessionSettled(j, out)
    \/ \E j \in DOMAIN liveRuns : OnError(j)
    \/ \E j \in DOMAIN liveRuns : OnClose(j)
    \/ \E j \in DOMAIN liveRuns : OnAudioProcess(j)

SpecLive == Init /\ [][NextLive]_vars

\* ------------------------------------------- sessions about to draw an image
\* The state of a session on a canvas of any size up to GeomDim x GeomDim that
\* a default brush stroke along the diagonal has painted, with an image of
\* any size up to GeomDim x GeomDim about to load: one passed to addImage, or
\* one chosen for import. SpecGeom runs the two onload handlers from there.
GeomSizes == (1..GeomDim) \X (1..GeomDim)
GeomImages == {[w |-> iw, h |-> ih, color |-> Red] : iw \in 1..GeomDim, ih \in 1..GeomDim}
GeomPainted(size) ==
    StrokePath(WhiteOn(size), << <<1, 1>>, size >>, DefaultBrushSize,
               StrokeStyle("BRUSH", Cyan))

InitGeom ==
    \E size \in GeomSizes, img \in GeomImages, imported \in BOOLEAN :
        LET stroke == SaveState(TRUE, WhiteOn(size), <<>>, <<>>)
            added == SaveState(TRUE, GeomPainted(size), stroke.hist, stroke.redo)
        IN  /\ mode = "IMAGE"
            /\ activeTool = IF imported THEN "BRUSH" ELSE "AI_ADD"
            /\ brushSize = DefaultBrushSize
            /\ brushColor = Cyan
            /\ assistantMessage = IF imported THEN "Importing image..."
                                   ELSE "Added to canvas! You can now draw over it."
            /\ context = TRUE
            /\ isDrawing = FALSE
            /\ surface = GeomPainted(size)
            /\ path = << <<1, 1>>, size >>
            /\ historyStack = IF imported THEN stroke.hist ELSE added.hist
            /\ redoStack = <<>>
            /\ pendingImages = IF imported THEN {} ELSE {img}
            /\ pendingImports = IF imported THEN {img} ELSE {}
            /\ offsetSize = size
            /\ generatingImage = FALSE
            /\ aiJob = NoJob
            /\ chatPending = 0
            /\ loading = FALSE
            /\ videoJob = "none"
            /\ staleJobs = NoStaleJobs
            /\ isLive = FALSE
            /\ liveStatus = "Ready"
            /\ sessions = <<>>
            /\ liveRuns = <<>>
            /\ nOps = 0
            /\ lastOp = IF imported THEN "triggerImport" ELSE "addImage"
            /\ lastArg = NoArg
            /\ lastOk = TRUE
            /\ lastReturn = "undefined"
            /\ prev = [surface |-> GeomPainted(size), hist |-> stroke.hist, redo |-> <<>>]
            /\ phase = "idle"
            /\ kind = "none"
            /\ taken = IF imported THEN <<WhiteOn(size)>>
                                   ELSE <<WhiteOn(size), GeomPainted(size)>>
            /\ pureCheckpoints = TRUE
            /\ strokeSaves = 1
            /\ lastChange = "edit"

NextGeom ==
    \/ \E img \in pendingImages : ImageLoaded(img)
    \/ \E img \in pendingImports : ImportLoaded(img)

SpecGeom == InitGeom /\ [][NextGeom]_vars

\* --------------------------------------------------------------- properties
DrawingTools == {"BRUSH", "ERASER"}
PointerOps == {"startDrawing", "draw", "stopDrawing"}

\* the history stack after one checkpoint of the pixels s
Checkpointed(hist, s) ==
    IF Len(hist) < MAX_HISTORY THEN Append(hist, s) ELSE Append(Tail(hist), s)

\* C1: in every state reachable by checkpointing actions, undo and redo, the
\* undo stack holds at most MAX_HISTORY snapshots, also right after a redo,
\* which pushes the current surface onto it without a cap of its own.
C1_UndoStackBounded == Len(historyStack) <= MAX_HISTORY

\* a redo has just pushed onto the undo stack and filled it
C1_RedoFillsStack == lastOp = "redo" /\ lastOk /\ Len(historyStack) = MAX_HISTORY

\* C2: after more than MAX_HISTORY consecutive checkpoints (no undo or redo)
\* the undo stack has exactly MAX_HISTORY entries: the most recently taken
\* snapshots, in the order they were taken.
C2_KeepsMostRecent ==
    (pureCheckpoints /\ Len(taken) > MAX_HISTORY) =>
        /\ Len(historyStack) = MAX_HISTORY
        /\ historyStack = SubSeq(taken, Len(taken) - MAX_HISTORY + 1, Len(taken))

\* two snapshots have been evicted, and the stack holds different pictures
C2_Evicted ==
    /\ pureCheckpoints
    /\ Len(taken) >= MAX_HISTORY + 2
    /\ \E i \in 1..(Len(historyStack) - 1) : historyStack[i] # historyStack[i + 1]

\* C3: right after a completed stroke, applyFilter or file import that took
\* the surface from S0 to S1, an undo succeeds and puts S0 on the surface,
\* and a redo right after that undo succeeds and puts S1 back.
C3_UndoRedoRoundTrip ==
    [][ /\ (phase = "acted" /\ lastOp' = "undo") =>
                (lastOk' /\ surface' = prev.surface)
        /\ (phase = "undone" /\ kind # "none" /\ lastOp' = "redo") =>
                (lastOk' /\ surface' = prev.surface) ]_vars

\* a stroke that changed the pixels has been undone and redone
C3_StrokeRedone ==
    /\ phase = "redone"
    /\ kind = "stroke"
    /\ historyStack # <<>>
    /\ surface # Top(historyStack)

\* C4: an undo that acts (the undo stack was not empty), followed at once by
\* a redo, leaves the pixels, the undo stack and the redo stack exactly as
\* they were before the undo.
C4_UndoThenRedoIdentity ==
    [][ (phase = "undone" /\ lastOp' = "redo") =>
            /\ lastOk'
            /\ surface' = prev.surface
            /\ historyStack' = prev.hist
            /\ redoStack' = prev.redo ]_vars

\* an undo and the redo after it have both changed the pixels
C4_RedoneAfterUndo == phase = "redone" /\ lastOk /\ prev.surface # surface

C6_NoRedoAfterEdit == lastChange = "edit" => redoStack = <<>>

\* C7: from the stroke-start that takes the engine out of Idle until it is
\* Idle again, the pointer handlers take exactly one checkpoint; stroke-move
\* and stroke-end take none.
C7_OneCheckpointPerStroke ==
    [][ /\ (lastOp' \in {"draw", "stopDrawing"}) => historyStack' = historyStack
        /\ (lastOp' = "startDrawing" /\ lastOk') =>
                /\ strokeSaves' = 1
                /\ historyStack' = Checkpointed(historyStack, surface) ]_vars

\* C8: with any tool other than brush and eraser a pointer event does not
\* take the engine from Idle to Stroking, takes no checkpoint and leaves the
\* pixels alone; Idle is only left on a stroke-start with brush or eraser.
C8_OnlyDrawingToolsStroke ==
    [][ /\ (lastOp' \in PointerOps /\ activeTool \notin DrawingTools) =>
                /\ (~isDrawing => ~isDrawing')
                /\ historyStack' = historyStack
                /\ redoStack' = redoStack
                /\ surface' = surface
        /\ (~isDrawing /\ isDrawing') =>
                (lastOp' = "startDrawing" /\ activeTool \in DrawingTools) ]_vars

\* a mouse-down on the initialised canvas was ignored under the smart-edit tool
C8_StrokeStartIgnored ==
    /\ context
    /\ lastOp = "startDrawing"
    /\ ~lastOk
    /\ ~isDrawing
    /\ activeTool = "SMART_EDIT"

\* C9: applyFilter with a string outside the FILTERS table changes nothing:
\* pixels, undo stack and redo stack are as before the call.
C9_UnknownFilterNoMutation ==
    (lastOp = "applyFilter" /\ lastArg \notin FILTERS) =>
        (surface = prev.surface /\ historyStack = prev.hist /\ redoStack = prev.redo)

\* C10: applyFilter("none") on the initialised canvas leaves the pixels as
\* they are, pushes one checkpoint and clears the redo stack; an undo right
\* after it acts and restores the pixels from before the filter.
C10_IdentityFilterCheckpoints ==
    [][ /\ (lastOp' = "applyFilter" /\ lastArg' = "none" /\ lastOk') =>
                /\ surface' = surface
                /\ historyStack' = Checkpointed(historyStack, surface)
                /\ redoStack' = <<>>
        /\ (lastOp = "applyFilter" /\ lastArg = "none" /\ lastOk /\ lastOp' = "undo") =>
                (lastOk' /\ surface' = prev.surface) ]_vars

\* the identity filter was applied to a painted canvas that had a redo entry
C10_IdentityFilterApplied ==
    /\ lastOp = "applyFilter"
    /\ lastArg = "none"
    /\ lastOk
    /\ prev.redo # <<>>
    /\ redoStack = <<>>
    /\ surface # WhiteSurface

\* equality of two rationals
FEq(a, b) == a[1] * b[2] = b[1] * a[2]

\* C11: on a canvas of any size, the onload of addImage draws an image of any
\* size into a region at most half the canvas wide and at most half the
\* canvas high, with the image's width:height ratio, with equal margins left
\* and right and equal margins above and below; the scale is the smaller of
\* the two axis ratios, so one axis is exactly half the canvas.
C11_CenteredHalfScale ==
    [][ \A img \in pendingImages :
            (lastOp' = "imageLoaded" /\ img \notin pendingImages') =>
                LET W == Width(surface)
                    H == Height(surface)
                    r == CenteredScaledRect(W, H, img)
                    sx == <<W, 2 * img.w>>
                    sy == <<H, 2 * img.h>>
                IN  /\ surface' = DrawImage(surface, img, r)
                    /\ FLe(FMul(FInt(2), r.w), FInt(W))
                    /\ FLe(FMul(FInt(2), r.h), FInt(H))
                    /\ FEq(FMul(r.w, FInt(img.h)), FMul(r.h, FInt(img.w)))
                    /\ FEq(FAdd(FAdd(r.x, r.w), r.x), FInt(W))
                    /\ FEq(FAdd(FAdd(r.y, r.h), r.y), FInt(H))
                    /\ FEq(FMul(FInt(2), r.w), FInt(W)) \/ FEq(FMul(FInt(2), r.h), FInt(H))
                    /\ \/ FLe(sx, sy) /\ FEq(r.w, FMul(FInt(img.w), sx))
                       \/ FLe(sy, sx) /\ FEq(r.w, FMul(FInt(img.w), sy)) ]_vars

\* an image was drawn onto part of a canvas that is wider than it is high
C11_ImageDrawnOnWideCanvas ==
    /\ lastOp = "imageLoaded"
    /\ Width(surface) > Height(surface)
    /\ \E p \in DOMAIN surface : surface[p] = Red
    /\ \E p \in DOMAIN surface : surface[p] # Red

\* C12: on a canvas of any size, the onload of an import draws an image of any
\* size with its width:height ratio kept, inside the canvas, spanning the
\* full width or the full height, centred; every pixel outside the drawn
\* region is white afterwards, whatever it was before.
C12_ImportFitsCanvas ==
    [][ \A img \in pendingImports :
            (lastOp' = "importLoaded" /\ img \notin pendingImports') =>
                LET W == Width(surface)
                    H == Height(surface)
                    r == FitCanvasRect(W, H, img)
                IN  /\ DOMAIN surface' = DOMAIN surface
                    /\ FEq(FMul(r.w, FInt(img.h)), FMul(r.h, FInt(img.w)))
                    /\ FLe(FInt(0), r.x) /\ FLe(FAdd(r.x, r.w), FInt(W))
                    /\ FLe(FInt(0), r.y) /\ FLe(FAdd(r.y, r.h), FInt(H))
                    /\ FEq(r.w, FInt(W)) \/ FEq(r.h, FInt(H))
                    /\ FEq(FAdd(FAdd(r.x, r.w), r.x), FInt(W))
                    /\ FEq(FAdd(FAdd(r.y, r.h), r.y), FInt(H))
                    /\ \A p \in DOMAIN surface' :
                            surface'[p] = IF InRect(p, r) THEN img.color ELSE White ]_vars

\* an import left a white margin where the canvas was painted before
C12_MarginWhitened ==
    /\ lastOp = "importLoaded"
    /\ \E p \in DOMAIN surface : surface[p] = White /\ prev.surface[p] # White
    /\ \E p \in DOMAIN surface : surface[p] = Red

\* C13: a call handed data that does not decode changes nothing, on the
\* addImage path and on the import path: when the call returns, and when the
\* decoding has failed, pixels, undo stack and redo stack are as before.
C13_UndecodableNoMutation ==
    (lastOp \in {"addImage", "imageFailed", "triggerImport", "importFailed"}
        /\ lastArg = BadData) =>
            (surface = prev.surface /\ historyStack = prev.hist /\ redoStack = prev.redo)

\* C14: after a resize of the initialised canvas the surface has the new
\* size; each of its pixels that the old surface had keeps its value, and
\* every other pixel is white.
C14_ResizeKeepsOverlap ==
    (lastOp = "resize" /\ context) =>
        /\ DOMAIN surface = PixelsOf(offsetSize)
        /\ \A p \in DOMAIN surface :
                surface[p] = IF p \in DOMAIN prev.surface THEN prev.surface[p] ELSE White

\* the requests to an external generator that have not settled
GenerationsOutstanding ==
    (IF aiJob.at = "generate" THEN 1 ELSE 0)
        + (IF videoJob = "generateVideo" THEN 1 ELSE 0)
        + staleJobs["generateVideo"]

\* C15: an image produced by an AI request is neither checkpointed for (the
\* addImage call) nor drawn (its onload) while a stroke is in progress.
C15_NoImageWhileStroking ==
    [][ ( \/ (lastOp' \in {"aiAddGenerated", "smartEditReturned"} /\ taken' # taken)
          \/ lastOp' = "imageLoaded" ) => ~isDrawing ]_vars

\* C16: at most one request to an external generator (image generation,
\* smart edit, video generation) is outstanding at any time.
C16_OneGenerationAtATime == GenerationsOutstanding <= 1

\* C17: a switch of mode is no canvas operation: it leaves the pixels, the
\* undo stack and the redo stack as they are.
C17_SurfaceSurvivesModeSwitch ==
    [][ lastOp' = "modeChange" =>
            (surface' = surface /\ historyStack' = historyStack /\ redoStack' = redoStack) ]_vars

\* C18: an AI add or smart edit request whose generator fails (no image, or
\* an error) changes neither the pixels nor either stack, from the click to
\* the handling of the failure, and ends with a failure message.
C18_AiFailureLeavesCanvas ==
    [][ /\ (lastOp' \in {"handleAiAdd", "handleSmartEdit", "aiKeyChecked", "aiKeySelected"}
                \/ (lastOp' \in {"aiAddGenerated", "smartEditReturned"} /\ lastArg' # "image")) =>
                    /\ surface' = surface
                    /\ historyStack' = historyStack
                    /\ redoStack' = redoStack
                    /\ pendingImages' = pendingImages
        /\ (lastOp' = "aiAddGenerated" /\ lastArg' = "null") =>
                assistantMessage' = "Sorry, I couldn't generate that image."
        /\ (lastOp' = "smartEditReturned" /\ lastArg' = "null") =>
                assistantMessage' = "Could not edit image."
        /\ (lastOp' = "smartEditReturned" /\ lastArg' = "throw") =>
                assistantMessage' = "Smart edit failed." ]_vars

\* a smart edit of a canvas with history has failed with an error
C18_SmartEditFailed ==
    /\ lastOp = "smartEditReturned"
    /\ lastArg = "throw"
    /\ historyStack # <<>>
    /\ ~generatingImage
    /\ assistantMessage = "Smart edit failed."

\* C19: once the image of an addImage call has been drawn, an undo right
\* after acts and puts back the pixels from immediately before the drawing,
\* whatever happened between the call and the load.
C19_UndoRestoresBeforeImage ==
    [][ (lastOp = "imageLoaded" /\ lastOp' = "undo") =>
            (lastOk' /\ surface' = prev.surface) ]_vars

\* C20: whatever the external call gives (a text, no text, an error), the
\* chat ends with a non-empty string on display: the reply's text, or one of
\* the two fixed fallbacks.
C20_ChatAlwaysAnswers ==
    lastOp = "chatReturned" =>
        /\ assistantMessage # ""
        /\ lastArg = "text" => assistantMessage \in {r.text : r \in ChatReplies}
        /\ lastArg = "empty" => assistantMessage = "I'm having trouble thinking right now."
        /\ lastArg = "error" => assistantMessage = "Connection error. Please check your settings."

\* a reply without text was answered with the fallback
C20_EmptyReplyFallback ==
    /\ lastOp = "chatReturned"
    /\ lastArg = "empty"
    /\ chatPending = 0
    /\ assistantMessage = "I'm having trouble thinking right now."

\* the statuses a live session may report
LiveStatuses == {"Connecting...", "Live", "Disconnected", "Error"}

\* C21: every status a live session reports is one of Connecting..., Live,
\* Disconnected, Error; once start() has run, Connecting... has been
\* reported, and it is the first status of the session, so Live never
\* precedes it.
C21_StatusesInOrder ==
    \A i \in DOMAIN sessions :
        LET r == sessions[i].reported
        IN  /\ \A k \in DOMAIN r : r[k] \in LiveStatuses
            /\ sessions[i].audioContext # 0 => r # <<>>
            /\ r # <<>> => r[1] = "Connecting..."
            /\ \A k \in DOMAIN r : r[k] = "Live" => k > 1

\* a session has reported Connecting..., Live, Error and Disconnected
C21_FullStatusRun ==
    \E i \in DOMAIN sessions :
        sessions[i].reported = <<"Connecting...", "Live", "Error", "Disconnected">>
\* C25: once stop() has been called on a live session, the session is not
\* active and has forwarded no microphone audio since.
C25_StoppedStaysStopped ==
    \A i \in DOMAIN sessions :
        sessions[i].stopped =>
            /\ ~sessions[i].active
            /\ sessions[i].sent # "afterStop"

\* C22: after the canvas has initialised, the undo stack holds exactly one
\* snapshot, the all-white surface, and the redo stack is empty.
C22_InitialCheckpoint ==
    lastOp = "init" =>
        /\ historyStack = <<WhiteOn(offsetSize)>>
        /\ redoStack = <<>>

\* C23: the undo stack and the redo stack together never hold more than
\* MAX_HISTORY snapshots.
C23_HistoryTotalBounded ==
    Len(historyStack) + Len(redoStack) <= MAX_HISTORY

\* the two stacks hold MAX_HISTORY snapshots together, some of them on the
\* redo stack after an undo
C23_FullWithRedo ==
    /\ Len(historyStack) + Len(redoStack) = MAX_HISTORY
    /\ redoStack # <<>>
    /\ lastOp = "undo"

\* C24: the active tool is one of the current mode's tools, and the canvas
\* editor, which exists in IMAGE mode only, is never given a video-only tool.
C24_ToolMatchesMode ==
    /\ mode = "IMAGE" => activeTool \in IMAGE_TOOLS
    /\ mode = "VIDEO" => activeTool \in VIDEO_TOOLS
    /\ context => activeTool \notin (VIDEO_TOOLS \ IMAGE_TOOLS)

\* a tool other than the default one was picked in VIDEO mode
C24_VideoToolPicked ==
    /\ mode = "VIDEO"
    /\ activeTool = "VIDEO_TRIM"
    /\ lastOp = "toolChange"

\* C26: a busy flag is set only while its request is running: when no AI add
\* or smart edit run is at an await generatingImage is false, and when no
\* video generation of the mounted video editor is at an await loading is
\* false.
C26_BusyOnlyWhileRunning ==
    /\ aiJob = NoJob => ~generatingImage
    /\ videoJob = "none" => ~loading

====
